---- MODULE Spec2Model ----
(***************************************************************************)
(* Model of src/main.py: PostgreSQLBackup, a batched exporter of table     *)
(* rows (or of the rows of a custom query) into SQL statement files.       *)
(*                                                                         *)
(*   _format_value        FormatValue (an operator, computed as the code   *)
(*                        dispatches)                                      *)
(*   backup_table         Introspect, OpenAndFrame, CapReached, Fetch,     *)
(*                        BulkWrite, EndPage, Finalize                     *)
(*   backup_custom_query  Probe, OpenAndFrame, and the same loop actions   *)
(*   backup_database      TableIter, TablesEnd, QueryIter, QueriesEnd      *)
(*                                                                         *)
(* The database and the file system are the environment: a database call   *)
(* (connect, execute, fetchall) or a file call (open, write) either        *)
(* succeeds or raises; a raised exception unwinds the `with` blocks and is *)
(* caught by the try/except of backup_database.                            *)
(***************************************************************************)
EXTENDS Integers, Sequences, FiniteSets, TLC

VARIABLES
  config,        \* self.config: [tables, custom_queries], read once
  db,            \* the database: for every configured entry, the relation it reads
  touched,       \* history: the ids of the rows that other processes have
                 \* inserted or deleted since backup_database started
  stage,         \* backup_database: "tables", "queries" or "exit"
  idx,           \* backup_database: 1-based position in the list being iterated
  invoked,       \* history: the exporter calls made so far, <<kind, position>>
  \* What follows describes the current iteration of backup_database: the
  \* exporter call it makes, if any, and what that call has done so far.
  pc,            \* state of the exporter call: "Idle" (no call), "Introspecting",
                 \* "Framing", "Paginating", "Bulk" (writing the statements of a
                 \* page), "Finalizing", "Done", "Failed"
  failedIn,      \* the state in which the exception was raised ("" when none)
  kind,          \* "table" or "query": the exporter called
  job,           \* the position of the entry the exporter was called for
  column_names,  \* column_names
  column_types,  \* column_types: a dict, column name -> declared type
  file,          \* the output file on disk: [exists, content]
  fileOpen,      \* whether backup_file is open
  conn,          \* number of database connections held
  offset,        \* offset
  batch_number,  \* batch_number
  recordsnum,    \* recordsnum
  rows,          \* rows: the page returned by the last fetchall()
  loweroffset,   \* loweroffset
  upperinsert,   \* upperinsert
  queries,       \* history: the statements this call sent to the database
  pageSizes,     \* history: len(rows) after every fetchall() of this call
  pageMark,      \* history: the number of statements in the file when the
                 \* last page was fetched
  opens,         \* history: the number of times this call has opened its file
  log,           \* history: the records this iteration logged
  \* One call of _format_value, observed on its own.
  fmtValue,      \* the value argument
  fmtType,       \* the data_type argument
  fmtDone,       \* whether the call has returned
  fmtToken       \* the token returned

jobVars == <<pc, failedIn, kind, job, column_names, column_types, file, fileOpen,
             conn, offset, batch_number, recordsnum, rows, loweroffset, upperinsert,
             queries, pageSizes, pageMark, opens, log>>

driverVars == <<config, db, touched, stage, idx, invoked>>

fmtVars == <<fmtValue, fmtType, fmtDone, fmtToken>>

vars == <<driverVars, jobVars, fmtVars>>

(***************************************************************************)
(* Text.  A Python str is a TLA+ string; Chars gives its characters.       *)
(***************************************************************************)
Chars(s) == [i \in 1..Len(s) |-> SubSeq(s, i, i)]

\* ''.join(cs), by halves
RECURSIVE Join(_)
Join(cs) ==
  IF Len(cs) = 0 THEN ""
  ELSE IF Len(cs) = 1 THEN cs[1]
  ELSE Join(SubSeq(cs, 1, Len(cs) \div 2)) \o Join(SubSeq(cs, Len(cs) \div 2 + 1, Len(cs)))

\* f applied n times to x, by halves; every intermediate value is computed once
RECURSIVE Iterate(_, _, _)
Iterate(f(_), x, n) ==
  IF n = 0 THEN x
  ELSE IF n = 1 THEN f(x)
  ELSE CHOOSE r \in {Iterate(f, y, n - n \div 2) : y \in {Iterate(f, x, n \div 2)}} : TRUE

Min(a, b) == IF a < b THEN a ELSE b

Max(a, b) == IF a > b THEN a ELSE b

\* s[lo:hi] of Python for 0 <= lo, 0 <= hi: the elements at 0-based positions lo..hi-1
Slice(s, lo, hi) == SubSeq(s, lo + 1, Min(hi, Len(s)))

Upper == "ABCDEFGHIJKLMNOPQRSTUVWXYZ"

Lower == "abcdefghijklmnopqrstuvwxyz"

\* str.lower() on one character
LowerChar(c) ==
  IF \E i \in 1..Len(Upper) : SubSeq(Upper, i, i) = c
  THEN LET i == CHOOSE j \in 1..Len(Upper) : SubSeq(Upper, j, j) = c
       IN SubSeq(Lower, i, i)
  ELSE c

\* str.lower()
ToLower(s) == Join([i \in 1..Len(s) |-> LowerChar(SubSeq(s, i, i))])

\* sub in s
Contains(s, sub) ==
  \E i \in 1..(Len(s) - Len(sub) + 1) : SubSeq(s, i, i + Len(sub) - 1) = sub

\* s.replace(old, new) for a one-character old
Replace(s, old, new) ==
  Join([i \in 1..Len(s) |-> IF SubSeq(s, i, i) = old THEN new ELSE SubSeq(s, i, i)])

DigitChars == "0123456789"

IsDigit(c) == \E d \in 0..9 : SubSeq(DigitChars, d + 1, d + 1) = c

DigitChar(d) == SubSeq(DigitChars, d + 1, d + 1)

DigitVal(c) == CHOOSE d \in 0..9 : DigitChar(d) = c

\* a string of digits as the sequence of its digits, and back
ToDigits(s) == [i \in 1..Len(s) |-> DigitVal(SubSeq(s, i, i))]

DigitsStr(ds) == Join([i \in 1..Len(ds) |-> DigitChar(ds[i])])

Zeros(n) == [i \in 1..n |-> 0]

AllZero(ds) == \A i \in 1..Len(ds) : ds[i] = 0

\* ds without its leading zeros
StripZeros(ds) ==
  LET nz == {i \in 1..Len(ds) : ds[i] # 0}
  IN IF nz = {} THEN <<>>
     ELSE SubSeq(ds, CHOOSE i \in nz : \A j \in nz : i <= j, Len(ds))

\* the number of digits at the start of s (the greedy \d+ of a regular expression)
DigitRun(s) ==
  LET runs == {n \in 0..Len(s) : \A i \in 1..n : IsDigit(SubSeq(s, i, i))}
  IN CHOOSE n \in runs : \A m \in runs : m <= n

\* int(s) for a string of digits
RECURSIVE DigitsToInt(_)
DigitsToInt(s) ==
  IF Len(s) = 0 THEN 0
  ELSE 10 * DigitsToInt(SubSeq(s, 1, Len(s) - 1)) + DigitVal(SubSeq(s, Len(s), Len(s)))

\* str(n) for an int n
RECURSIVE NatStr(_)
NatStr(n) == IF n < 10 THEN DigitChar(n) ELSE NatStr(n \div 10) \o DigitChar(n % 10)

IntStr(n) == IF n < 0 THEN "-" \o NatStr(0 - n) ELSE NatStr(n)


(***************************************************************************)
(* Values.  A raw value is a record [k, b, n, s, e]:                       *)
(*   k = "null"   None                                                     *)
(*   k = "bool"   the bool b                                               *)
(*   k = "int"    the int n                                                *)
(*   k = "str"    the str s                                                *)
(*   k = "dec"    the decimal.Decimal (-1)^b * s * 10^e, s its coefficient *)
(*                as a string of digits                                    *)
(*   k = "other"  any other object (a date, a list ...), s its str()       *)
(* A data_type is a string; None is the empty string (both are falsy, and  *)
(* _format_value only ever tests `data_type and ...`).                     *)
(***************************************************************************)
NullV == [k |-> "null", b |-> FALSE, n |-> 0, s |-> "", e |-> 0]

BoolV(x) == [k |-> "bool", b |-> x, n |-> 0, s |-> "", e |-> 0]

IntV(x) == [k |-> "int", b |-> FALSE, n |-> x, s |-> "", e |-> 0]

StrV(x) == [k |-> "str", b |-> FALSE, n |-> 0, s |-> x, e |-> 0]

DecV(neg, coef, exp) == [k |-> "dec", b |-> neg, n |-> 0, s |-> coef, e |-> exp]

OtherV(x) == [k |-> "other", b |-> FALSE, n |-> 0, s |-> x, e |-> 0]

NoType == ""

\* isinstance(value, Decimal)
IsDecimal(v) == v.k = "dec"

\* isinstance(value, str)
IsStr(v) == v.k = "str"

\* isinstance(value, (int, float)): bool is a subclass of int
IsIntOrFloat(v) == v.k \in {"int", "bool"}

\* isinstance(value, bool)
IsBool(v) == v.k = "bool"

(***************************************************************************)
(* decimal.Decimal: construction from a string, normalize() and str().     *)
(***************************************************************************)
\* Decimal(s): s of the shape [-]digits[.[digits]] or [-].digits converts; a
\* string of any other shape among those of the model (text that is no number)
\* raises InvalidOperation (ok = FALSE).  The exponent, "+", blank and "_"
\* forms that Decimal() also accepts are not among the model's values.
ParseDecimal(s) ==
  LET neg  == Len(s) > 0 /\ SubSeq(s, 1, 1) = "-"
      body == IF neg THEN SubSeq(s, 2, Len(s)) ELSE s
      ni   == DigitRun(body)
      rest == SubSeq(body, ni + 1, Len(body))
      dot  == Len(rest) > 0 /\ SubSeq(rest, 1, 1) = "."
      frac == IF dot THEN SubSeq(rest, 2, Len(rest)) ELSE ""
      nf   == DigitRun(frac)
      ok   == /\ ni > 0 \/ (dot /\ nf > 0)
              /\ IF dot THEN nf = Len(frac) ELSE Len(rest) = 0
      ds   == StripZeros(ToDigits(SubSeq(body, 1, ni) \o frac))
  IN IF ok
     THEN [ok |-> TRUE,
           dec |-> DecV(neg, IF ds = <<>> THEN "0" ELSE DigitsStr(ds), 0 - nf)]
     ELSE [ok |-> FALSE, dec |-> NullV]

\* the number of zeros at the end of ds
TrailingZeros(ds) ==
  LET runs == {n \in 0..Len(ds) : \A i \in 1..n : ds[Len(ds) + 1 - i] = 0}
  IN CHOOSE n \in runs : \A m \in runs : m <= n

\* Decimal.normalize(): strip the trailing zeros of the coefficient; a zero
\* becomes 0 (or -0) with exponent 0.  (The coefficients of the model are
\* shorter than the context precision of 28 digits, so nothing is rounded.)
Normalize(d) ==
  LET ds == ToDigits(d.s)
      tz == TrailingZeros(ds)
  IN IF AllZero(ds) THEN DecV(d.b, "0", 0)
     ELSE DecV(d.b, SubSeq(d.s, 1, Len(d.s) - tz), d.e + tz)

\* Decimal.__str__: plain notation when the exponent is <= 0 and the adjusted
\* exponent is > -7, scientific notation otherwise
StrDecimal(d) ==
  LET sign       == IF d.b THEN "-" ELSE ""
      leftdigits == d.e + Len(d.s)
      dotplace   == IF d.e <= 0 /\ leftdigits > -6 THEN leftdigits ELSE 1
      intpart    == IF dotplace <= 0 THEN "0"
                    ELSE IF dotplace >= Len(d.s)
                         THEN d.s \o DigitsStr(Zeros(dotplace - Len(d.s)))
                         ELSE SubSeq(d.s, 1, dotplace)
      fracpart   == IF dotplace <= 0
                    THEN "." \o DigitsStr(Zeros(0 - dotplace)) \o d.s
                    ELSE IF dotplace >= Len(d.s) THEN ""
                         ELSE "." \o SubSeq(d.s, dotplace + 1, Len(d.s))
      expo       == IF leftdigits = dotplace THEN ""
                    ELSE "E" \o (IF leftdigits - dotplace < 0 THEN "-" ELSE "+")
                             \o NatStr(IF leftdigits - dotplace < 0
                                       THEN dotplace - leftdigits
                                       ELSE leftdigits - dotplace)
  IN sign \o intpart \o fracpart \o expo

\* str(value)
PyStr(v) ==
  CASE v.k = "null"  -> "None"
    [] v.k = "bool"  -> IF v.b THEN "True" ELSE "False"
    [] v.k = "int"   -> IntStr(v.n)
    [] v.k = "str"   -> v.s
    [] v.k = "other" -> v.s
    [] v.k = "dec"   -> StrDecimal(v)

(***************************************************************************)
(* float(decimal_value) and '{:.<scale>f}'.format(...).  A Python float is *)
(* an IEEE 754 double: 53 significant bits, round to nearest, ties to      *)
(* even.  Numbers of this size do not fit TLC's integers, so the           *)
(* arithmetic is done on sequences of decimal digits and of bits, most     *)
(* significant first.  A double is kept as the bits before and after its   *)
(* binary point, [neg, ibits, fbits].  (The values of the model are far    *)
(* from the overflow and denormal ranges of a double.)                     *)
(***************************************************************************)
\* the digits of 2 * ds + a (a is 0 or 1) without the carry out of the first
\* digit: a digit is carried into exactly when the digit after it is >= 5
Double(ds, a) ==
  [i \in 1..Len(ds) |->
     (2 * ds[i] + (IF i = Len(ds) THEN a ELSE IF ds[i + 1] >= 5 THEN 1 ELSE 0)) % 10]

\* the carry out of the first digit of 2 * ds + a
DoubleCarry(ds, a) == IF ds = <<>> THEN a ELSE IF ds[1] >= 5 THEN 1 ELSE 0

\* the digits of ds / 2 (rounded down): the remainder carried into a digit is
\* the parity of the digit before it
Halve(ds) ==
  [i \in 1..Len(ds) |-> ((IF i > 1 THEN ds[i - 1] % 2 ELSE 0) * 10 + ds[i]) \div 2]

\* ds + 1 in base `base`
Increment(ds, base) ==
  LET low == {i \in 1..Len(ds) : ds[i] # base - 1}
      p   == CHOOSE i \in low : \A j \in low : j <= i
  IN IF low = {} THEN <<1>> \o Zeros(Len(ds))
     ELSE [i \in 1..Len(ds) |-> IF i < p THEN ds[i] ELSE IF i = p THEN ds[i] + 1 ELSE 0]

\* the decimal d = int.frac as digits before and after the decimal point
DecParts(d) ==
  LET c == ToDigits(d.s)
  IN IF d.e >= 0
     THEN [int |-> StripZeros(c \o Zeros(d.e)), frac |-> <<>>]
     ELSE IF 0 - d.e >= Len(c)
          THEN [int |-> <<>>, frac |-> Zeros(0 - d.e - Len(c)) \o c]
          ELSE [int  |-> StripZeros(SubSeq(c, 1, Len(c) + d.e)),
                frac |-> SubSeq(c, Len(c) + d.e + 1, Len(c))]

\* one step of the conversion of an integer to bits: the last bit of st.ds
\* goes in front of st.bits and st.ds is halved
IntBitsStep(st) ==
  IF st.ds = <<>> THEN st
  ELSE [ds |-> StripZeros(Halve(st.ds)), bits |-> <<st.ds[Len(st.ds)] % 2>> \o st.bits]

\* the bits of the integer ds (a number of n digits has fewer than 4n bits)
IntBits(ds) ==
  Iterate(IntBitsStep, [ds |-> StripZeros(ds), bits |-> <<>>], 4 * Len(ds)).bits

\* one step of the conversion of a fraction to bits: st.fs is doubled and the
\* carry is the next bit; need counts the bits still wanted, from the first 1
\* bit on (from the start when started)
FracBitsStep(st) ==
  IF st.need = 0 \/ AllZero(st.fs) THEN st
  ELSE LET bit  == DoubleCarry(st.fs, 0)
           live == st.started \/ bit = 1
       IN [fs |-> Double(st.fs, 0), need |-> IF live THEN st.need - 1 ELSE st.need,
           started |-> live, bits |-> st.bits \o <<bit>>]

\* the bits of the fraction 0.fs until `need` bits are produced or nothing is
\* left (a fraction of n digits starts with fewer than 4n zero bits); rem is
\* the part of the fraction not yet converted
FracBits(fs, need, started) ==
  LET st == Iterate(FracBitsStep,
                    [fs |-> fs, need |-> need, started |-> started, bits |-> <<>>],
                    need + 4 * Len(fs))
  IN [bits |-> st.bits, rem |-> st.fs]

MantissaBits == 53

\* a double from its sign and its bits, nI + 1 of them before the binary point
FloatOf(neg, nI, bits) ==
  [neg |-> neg, ibits |-> SubSeq(bits, 1, nI + 1), fbits |-> SubSeq(bits, nI + 2, Len(bits))]

\* whether the bits after position cut round the bits up to it upwards: more
\* than half, or exactly half with the last kept bit odd (ties to even)
RoundsUp(stream, cut, inexact) ==
  /\ stream[cut + 1] = 1
  /\ \/ inexact
     \/ \E i \in (cut + 2)..Len(stream) : stream[i] = 1
     \/ stream[cut] = 1

\* stream rounded to the MantissaBits bits that end at position cut
RoundAt(stream, cut, inexact) ==
  IF Len(stream) <= cut THEN stream
  ELSE (IF RoundsUp(stream, cut, inexact)
        THEN Increment(SubSeq(stream, 1, cut), 2)
        ELSE SubSeq(stream, 1, cut)) \o Zeros(Len(stream) - cut)

\* the position of the first 1 bit of stream
FirstOne(stream) ==
  CHOOSE i \in 1..Len(stream) : stream[i] = 1 /\ \A j \in 1..(i - 1) : stream[j] = 0

\* the double nearest to the number whose bits are stream (a 0 bit, then nI
\* bits before the binary point, then the bits after it); inexact says that
\* the number has further non-zero bits
RoundStream(neg, nI, stream, inexact) ==
  IF AllZero(stream) THEN [neg |-> neg, ibits |-> <<>>, fbits |-> <<>>]
  ELSE FloatOf(neg, nI, RoundAt(stream, FirstOne(stream) + MantissaBits - 1, inexact))

\* the double nearest to the number with the integer bits ib and the fraction
\* bits g.bits, g.rem being what is left of the fraction
FloatOfBits(neg, ib, g) ==
  RoundStream(neg, Len(ib), <<0>> \o ib \o g.bits, ~AllZero(g.rem))

\* the double nearest to int.frac: one bit more than the mantissa is produced
FloatOfParts(neg, ib, frac) ==
  FloatOfBits(neg, ib,
              FracBits(frac,
                       IF Len(ib) > MantissaBits THEN 0 ELSE MantissaBits + 1 - Len(ib),
                       Len(ib) > 0))

\* float(d): the double nearest to the decimal d, ties to even
ToFloat(d) == FloatOfParts(d.b, IntBits(DecParts(d).int), DecParts(d).frac)

\* one step of Horner's rule: st.acc = 2 * st.acc + the next bit
BitsToDigitsStep(st) ==
  IF st.bits = <<>> THEN st
  ELSE [bits |-> Tail(st.bits),
        acc  |-> StripZeros(<<DoubleCarry(st.acc, st.bits[1])>>
                            \o Double(st.acc, st.bits[1]))]

\* the decimal digits of the integer whose bits are bits
BitsToDigits(bits) ==
  Iterate(BitsToDigitsStep, [bits |-> bits, acc |-> <<>>], Len(bits)).acc

\* one step from the last bit to the first: 0.b1b2... = (b1 + 0.b2...) / 2
FracDigitsStep(st) ==
  IF st.bits = <<>> THEN st
  ELSE [bits |-> SubSeq(st.bits, 1, Len(st.bits) - 1),
        acc  |-> Tail(Halve(<<st.bits[Len(st.bits)]>> \o st.acc \o <<0>>))]

\* the decimal digits of the fraction 0.bits, exactly
FracDigits(bits) ==
  Iterate(FracDigitsStep, [bits |-> bits, acc |-> <<>>], Len(bits)).acc

\* the number int.frac rounded to scale digits after the point, as the digits
\* of the rounded number times 10^scale; an exact tie goes up when tieUpOdd
\* (the last kept digit is odd) or tieUpEven (it is even) says so
RoundDigits(int, frac, scale, tieUpOdd, tieUpEven) ==
  LET padded == frac \o Zeros(Max(0, scale + 1 - Len(frac)))
      kept   == int \o SubSeq(padded, 1, scale)
      first  == padded[scale + 1]
      rest   == SubSeq(padded, scale + 2, Len(padded))
      odd    == kept # <<>> /\ kept[Len(kept)] % 2 = 1
      up     == \/ first > 5
                \/ first = 5 /\ ~AllZero(rest)
                \/ first = 5 /\ AllZero(rest) /\ (IF odd THEN tieUpOdd ELSE tieUpEven)
  IN IF up THEN Increment(StripZeros(kept), 10) ELSE StripZeros(kept)

\* the digits ds of a number times 10^scale, written with scale digits after
\* the decimal point
RenderFixed(neg, ds, scale) ==
  LET full == Zeros(Max(0, scale + 1 - Len(ds))) \o ds
      n    == Len(full)
  IN (IF neg THEN "-" ELSE "")
       \o DigitsStr(SubSeq(full, 1, n - scale))
       \o (IF scale > 0 THEN "." \o DigitsStr(SubSeq(full, n - scale + 1, n)) ELSE "")

\* '{:.<scale>f}'.format(f): the exact value of the double f rounded to scale
\* digits, ties to even
FormatFixed(f, scale) ==
  RenderFixed(f.neg,
              RoundDigits(BitsToDigits(f.ibits), FracDigits(f.fbits),
                          scale, TRUE, FALSE),
              scale)

(***************************************************************************)
(* _format_value                                                           *)
(***************************************************************************)
NumericPrefix == "numeric("

\* re.match(r'numeric\((\d+),(\d+)\)', t): the match anchors at the start of t
\* only; ok says whether it matched, scale is int() of the second group
NumericMatch(t) ==
  LET np   == Len(NumericPrefix)
      a    == SubSeq(t, np + 1, Len(t))
      n1   == DigitRun(a)
      b    == SubSeq(a, n1 + 2, Len(a))
      n2   == DigitRun(b)
      ok   == /\ Len(t) >= np /\ SubSeq(t, 1, np) = NumericPrefix
              /\ n1 > 0
              /\ Len(a) > n1 /\ SubSeq(a, n1 + 1, n1 + 1) = ","
              /\ n2 > 0
              /\ Len(b) > n2 /\ SubSeq(b, n2 + 1, n2 + 1) = ")"
  IN [ok |-> ok, scale |-> IF ok THEN DigitsToInt(SubSeq(b, 1, n2)) ELSE 0]

\* data_type and 'numeric' in data_type.lower()
IsNumericType(data_type) ==
  data_type # NoType /\ Contains(ToLower(data_type), "numeric")

\* a literal whose quotes are not doubled
QuoteLiteralUnescaped(s) == "'" \o s \o "'"

\* the escaped, quoted literal of lines 108-109 and 118-119
QuoteLiteral(s) == "'" \o Replace(s, "'", "''") \o "'"

\* the body of the try block of lines 86-102; ok = FALSE when it raises
FormatNumeric(value, data_type) ==
  LET parsed == IF IsDecimal(value) THEN [ok |-> TRUE, dec |-> value]
                ELSE ParseDecimal(PyStr(value))
      m      == NumericMatch(ToLower(data_type))
  IN IF ~parsed.ok THEN [ok |-> FALSE, token |-> ""]
     ELSE IF IsNumericType(data_type) /\ m.ok
          THEN [ok |-> TRUE, token |-> FormatFixed(ToFloat(parsed.dec), m.scale)]
          ELSE [ok |-> TRUE, token |-> StrDecimal(Normalize(parsed.dec))]

\* a dispatch that tests the declared type before it tests for None
FormatValueTypeFirst(value, data_type) ==
  IF IsDecimal(value) \/ IsNumericType(data_type)
  THEN (IF FormatNumeric(value, data_type).ok
        THEN FormatNumeric(value, data_type).token ELSE PyStr(value))
  ELSE IF value.k = "null" THEN "NULL"
  ELSE IF IsStr(value) THEN QuoteLiteral(value.s)
  ELSE IF IsIntOrFloat(value) THEN PyStr(value)
  ELSE QuoteLiteral(PyStr(value))

\* _format_value(value, data_type): the rules in the order of the code
FormatValue(value, data_type) ==
  IF value.k = "null" THEN "NULL"
  ELSE IF IsDecimal(value) \/ IsNumericType(data_type)
       THEN LET r == FormatNumeric(value, data_type)
            IN IF r.ok THEN r.token ELSE PyStr(value)
  ELSE IF IsStr(value) THEN QuoteLiteral(value.s)
  ELSE IF IsIntOrFloat(value) THEN PyStr(value)
  ELSE IF IsBool(value) THEN (IF value.b THEN "TRUE" ELSE "FALSE")
  ELSE QuoteLiteral(PyStr(value))

(***************************************************************************)
(* Configuration and database.                                             *)
(*                                                                         *)
(* A table entry is [name, batch_size, max_batches], a custom-query entry  *)
(* [query, batch_size, max_batches]; a missing or empty name (query) is    *)
(* "", a missing max_batches is None.  schema, where_clause, params and    *)
(* the output names only shape the SQL text and the file name and are left *)
(* out.  The relation an entry reads is [exists, rows]: rows in the order  *)
(* in which the paginated statement returns them (ORDER BY ctid for a      *)
(* table; for a query, the order the query itself defines).                *)
(***************************************************************************)
None == -1

\* Python's truth value of an Optional[int]: None and 0 are false
Truthy(n) == n # None /\ n # 0

\* the columns of the relations of the model: name, the data_type that
\* information_schema.columns reports, and the type_code of the cursor
\* description (the type's OID)
Columns ==
  << [name |-> "id",     data_type |-> "integer", type_code |-> "23"],
     [name |-> "note",   data_type |-> "text",    type_code |-> "25"],
     [name |-> "active", data_type |-> "boolean", type_code |-> "16"] >>

\* the columns of the result of a query, as result.keys() and the cursor
\* description give them.  The query "join" stands for a query that selects
\* the key of two joined relations (SELECT o.id, o.note, c.id FROM ... JOIN
\* ...): its first and last columns have the same name.
QueryColumns(query) ==
  IF query = "join"
  THEN [i \in 1..Len(Columns) |->
          IF i = Len(Columns) THEN [Columns[i] EXCEPT !.name = Columns[1].name]
          ELSE Columns[i]]
  ELSE Columns

\* the i-th row of a relation
Row(i) ==
  << IntV(i),
     IF i % 3 = 0 THEN NullV ELSE IF i % 3 = 1 THEN StrV("it's ok") ELSE StrV("ok"),
     BoolV(i % 2 = 0) >>

RowsOf(n) == [i \in 1..n |-> Row(i)]

\* statements of an output file; an INSERT carries its column list and one
\* tuple of tokens per row
Stmt(k) == [k |-> k, cols |-> <<>>, values |-> <<>>]

InsertStmt(cols, values) == [k |-> "INSERT", cols |-> cols, values |-> values]

NoFile == [exists |-> FALSE, content |-> <<>>]

\* the entry and the relation of the current iteration
Entry == IF kind = "table" THEN config.tables[job] ELSE config.custom_queries[job]

Relation == IF kind = "table" THEN db.tables[job] ELSE db.custom_queries[job]

\* no exporter call is in progress
NoCall == pc \in {"Idle", "Done", "Failed"}

(***************************************************************************)
(* The row formatting of lines 197-207 (and 294-304).                      *)
(***************************************************************************)
\* dict(zip(keys, vals)): zip stops at the shorter, a later pair replaces an
\* earlier one with the same key
DictZip(keys, vals) ==
  LET n == Min(Len(keys), Len(vals))
  IN [c \in {keys[i] : i \in 1..n} |->
        vals[CHOOSE i \in 1..n : keys[i] = c /\ \A j \in 1..n : keys[j] = c => j <= i]]

\* the tuple of tokens of one row
FormatRow(names, types, row) ==
  LET row_dict == DictZip(names, row)
  IN [i \in 1..Len(names) |-> FormatValue(row_dict[names[i]], types[names[i]])]

\* the statement written for current_batch
BulkInsert(names, types, current_batch) ==
  InsertStmt(names,
             [i \in 1..Len(current_batch) |-> FormatRow(names, types, current_batch[i])])

BulkSize == 10

\* rows[loweroffset:upperinsert]
CurrentBatch == Slice(rows, loweroffset, upperinsert)

\* the statements written before the loop: lines 159-162, and lines 256-257
Header(k) ==
  IF k = "table"
  THEN <<Stmt("-- Backup of"), Stmt("SET session_replication_role = 'replica'"),
         Stmt("DISABLE TRIGGER ALL"), Stmt("TRUNCATE TABLE")>>
  ELSE <<Stmt("-- Custom Query Backup for"), Stmt("-- Original Query")>>

\* a trailer that is written for a query as it is for a table
TrailerForAll(k) ==
  <<Stmt("ENABLE TRIGGER ALL"), Stmt("SET session_replication_role = 'origin'")>>

\* a trailer that restores the replication role before the triggers
TrailerOriginFirst(k) ==
  IF k = "table"
  THEN <<Stmt("SET session_replication_role = 'origin'"), Stmt("ENABLE TRIGGER ALL")>>
  ELSE <<>>

\* the statements written after the loop: lines 226-227; none for a query
Trailer(k) ==
  IF k = "table"
  THEN <<Stmt("ENABLE TRIGGER ALL"), Stmt("SET session_replication_role = 'origin'")>>
  ELSE <<>>

(***************************************************************************)
(* The exporters.  A step that calls the database or the file system has   *)
(* a branch in which the call raises.                                      *)
(***************************************************************************)
\* an exporter that opens its file without a `with` block: an exception
\* leaves the handle open
RaiseLeavesOpen(state) ==
  /\ pc' = "Failed"
  /\ failedIn' = state
  /\ conn' = 0
  /\ fileOpen' = fileOpen
  /\ log' = Append(log, "ERROR")
  /\ idx' = idx + 1

\* a driver that runs the failed entry again
RaiseRetry(state) ==
  /\ pc' = "Failed"
  /\ failedIn' = state
  /\ conn' = 0
  /\ fileOpen' = FALSE
  /\ log' = Append(log, "ERROR")
  /\ idx' = idx

\* a driver without the try/except around the exporter call: the exception
\* leaves backup_database too
RaiseUncaught(state) ==
  /\ pc' = "Crashed"
  /\ failedIn' = state
  /\ conn' = 0
  /\ fileOpen' = FALSE
  /\ log' = Append(log, "ERROR")
  /\ idx' = idx

\* An exception raised in state `state` leaves backup_table (or
\* backup_custom_query): the `with` blocks release the connection and close
\* the file, and the except clause of backup_database (lines 346-347,
\* 371-372) logs the error; the loop goes on to the next entry.
Raise(state) ==
  /\ pc' = "Failed"
  /\ failedIn' = state
  /\ conn' = 0
  /\ fileOpen' = FALSE
  /\ log' = Append(log, "ERROR")
  /\ idx' = idx + 1

\* lines 128-147: the catalog query for the columns of the table.  For a
\* table that does not exist the query is still valid and returns no row.
Introspect ==
  /\ pc = "Introspecting" /\ kind = "table"
  /\ queries' = Append(queries, [q |-> "columns", limit |-> 0, offset |-> 0])
  /\ \/ /\ column_names' =
             IF Relation.exists THEN [i \in 1..Len(Columns) |-> Columns[i].name] ELSE <<>>
        /\ column_types' =
             IF Relation.exists
             THEN DictZip([i \in 1..Len(Columns) |-> Columns[i].name],
                          [i \in 1..Len(Columns) |-> Columns[i].data_type])
             ELSE <<>>
        /\ pc' = "Framing"
        /\ UNCHANGED <<failedIn, conn, fileOpen, log, idx>>
     \/ /\ Raise("Introspecting")
        /\ UNCHANGED <<column_names, column_types>>
  /\ UNCHANGED <<config, db, touched, stage, invoked, kind, job, file, offset, batch_number,
                 recordsnum, rows, loweroffset, upperinsert, pageSizes, pageMark,
                 opens, fmtVars>>

\* lines 240-253: the probe `query LIMIT 1`; it raises when the query cannot
\* be executed (here: the relation it reads does not exist)
Probe ==
  /\ pc = "Introspecting" /\ kind = "query"
  /\ queries' = Append(queries, [q |-> "probe", limit |-> 1, offset |-> 0])
  /\ \/ /\ Relation.exists
        /\ column_names' = [i \in 1..Len(Columns) |-> QueryColumns(Entry.query)[i].name]
        /\ column_types' =
             DictZip([i \in 1..Len(Columns) |-> QueryColumns(Entry.query)[i].name],
                     [i \in 1..Len(Columns) |-> QueryColumns(Entry.query)[i].type_code])
        /\ pc' = "Opening"
        /\ UNCHANGED <<failedIn, conn, fileOpen, log, idx>>
     \/ /\ Raise("Introspecting")
        /\ UNCHANGED <<column_names, column_types>>
  /\ UNCHANGED <<config, db, touched, stage, invoked, kind, job, file, offset, batch_number,
                 recordsnum, rows, loweroffset, upperinsert, pageSizes, pageMark,
                 opens, fmtVars>>

\* lines 158-166 (255-261): open() creates or truncates the file, then the
\* header is written statement by statement; open() or any write may raise
OpenAndFrame ==
  /\ pc = (IF kind = "table" THEN "Framing" ELSE "Opening")
  /\ \/ /\ Raise(pc)
        /\ UNCHANGED <<file, opens, offset, batch_number, recordsnum>>
     \/ \E n \in 0..(Len(Header(kind)) - 1) :
          /\ file' = [exists |-> TRUE, content |-> SubSeq(Header(kind), 1, n)]
          /\ opens' = opens + 1
          /\ Raise(pc)
          /\ UNCHANGED <<offset, batch_number, recordsnum>>
     \/ /\ file' = [exists |-> TRUE, content |-> Header(kind)]
        /\ opens' = opens + 1
        /\ fileOpen' = TRUE
        /\ offset' = 0
        /\ batch_number' = 1
        /\ recordsnum' = 0
        /\ pc' = "Paginating"
        /\ UNCHANGED <<failedIn, conn, log, idx>>
  /\ UNCHANGED <<config, db, touched, stage, invoked, kind, job, column_names, column_types,
                 rows, loweroffset, upperinsert, queries, pageSizes, pageMark, fmtVars>>

\* a cap test that is off by one: the loop stops one batch early
CapExceededFromCap == Truthy(Entry.max_batches) /\ batch_number >= Entry.max_batches

\* the test of lines 170 and 263
CapExceeded == Truthy(Entry.max_batches) /\ batch_number > Entry.max_batches

\* lines 170-172 (263-265): the cap is reached
CapReached ==
  /\ pc = "Paginating"
  /\ CapExceeded
  /\ log' = Append(log, "Reached maximum number of batches")
  /\ pc' = "Finalizing"
  /\ UNCHANGED <<driverVars, failedIn, kind, job, column_names, column_types, file,
                 fileOpen, conn, offset, batch_number, recordsnum, rows, loweroffset,
                 upperinsert, queries, pageSizes, pageMark, opens, fmtVars>>

\* a LIMIT that returns one row too many
PageOneMore(rel, limit, off) == Slice(rel.rows, off, off + limit + 1)

\* the rows that `... LIMIT limit OFFSET off` returns
Page(rel, limit, off) == Slice(rel.rows, off, off + limit)

\* lines 173-185 (266-282): one paginated statement on a connection of its
\* own.  It raises when the relation does not exist, and may raise otherwise.
Fetch ==
  /\ pc = "Paginating"
  /\ ~CapExceeded
  /\ queries' = Append(queries, [q |-> "page", limit |-> Entry.batch_size,
                                 offset |-> offset])
  /\ \/ /\ Relation.exists
        /\ rows' = Page(Relation, Entry.batch_size, offset)
        /\ pageSizes' = Append(pageSizes, Len(rows'))
        /\ pageMark' = Len(file.content)
        /\ IF rows' = <<>>
           THEN /\ pc' = "Finalizing"
                /\ UNCHANGED <<conn, loweroffset, upperinsert>>
           ELSE /\ pc' = "Bulk"
                /\ conn' = 1
                /\ loweroffset' = 0
                /\ upperinsert' = BulkSize
        /\ UNCHANGED <<failedIn, fileOpen, log, idx>>
     \/ /\ Raise("Paginating")
        /\ UNCHANGED <<rows, loweroffset, upperinsert, pageSizes, pageMark>>
  /\ UNCHANGED <<config, db, touched, stage, invoked, kind, job, column_names, column_types,
                 file, offset, batch_number, recordsnum, opens, fmtVars>>

\* a bulk loop whose second group takes all the rows that are left
NextUpperToEnd(upper, n) == n

\* lines 214-216 (311-313): upperinsert += 10, clamped to len(rows)
NextUpper(upper, n) == IF upper + BulkSize > n THEN n ELSE upper + BulkSize

\* lines 188-216 (285-313): one round of the bulk loop with a non-empty
\* current_batch: one INSERT statement is written (the write may raise)
BulkWrite ==
  /\ pc = "Bulk"
  /\ CurrentBatch # <<>>
  /\ \/ /\ Raise("Paginating")
        /\ UNCHANGED <<file, loweroffset, upperinsert>>
     \/ /\ file' = [file EXCEPT !.content =
                      Append(@, BulkInsert(column_names, column_types, CurrentBatch))]
        /\ loweroffset' = loweroffset + (upperinsert - loweroffset)
        /\ upperinsert' = NextUpper(upperinsert, Len(rows))
        /\ UNCHANGED <<pc, failedIn, conn, fileOpen, log, idx>>
  /\ UNCHANGED <<config, db, touched, stage, invoked, kind, job, column_names, column_types,
                 offset, batch_number, recordsnum, rows, queries, pageSizes, pageMark,
                 opens, fmtVars>>

\* a loop that advances by one row instead of one page
NextOffsetByOne(off, batch_size) == off + 1

\* a loop that forgets to advance: the offset stays where it is
NextOffsetStuck(off, batch_size) == off

\* line 220 (316): offset += batch_size
NextOffset(off, batch_size) == off + batch_size

\* an end of page that counts batch_size rows instead of the rows fetched
EndPageCountsBatchSize ==
  /\ pc = "Bulk"
  /\ CurrentBatch = <<>>
  /\ conn' = 0
  /\ offset' = NextOffset(offset, Entry.batch_size)
  /\ batch_number' = batch_number + 1
  /\ recordsnum' = recordsnum + Entry.batch_size
  /\ log' = Append(log, "Processed batch")
  /\ pc' = "Paginating"
  /\ UNCHANGED <<driverVars, failedIn, kind, job, column_names, column_types, file,
                 fileOpen, rows, loweroffset, upperinsert, queries, pageSizes, pageMark,
                 opens, fmtVars>>

\* lines 192-194 and 220-224 (289-291 and 316-320): current_batch is empty,
\* the bulk loop and the connection's `with` block end, the page is counted
EndPage ==
  /\ pc = "Bulk"
  /\ CurrentBatch = <<>>
  /\ conn' = 0
  /\ offset' = NextOffset(offset, Entry.batch_size)
  /\ batch_number' = batch_number + 1
  /\ recordsnum' = recordsnum + Len(rows)
  /\ log' = Append(log, "Processed batch")
  /\ pc' = "Paginating"
  /\ UNCHANGED <<driverVars, failedIn, kind, job, column_names, column_types, file,
                 fileOpen, rows, loweroffset, upperinsert, queries, pageSizes, pageMark,
                 opens, fmtVars>>

\* lines 226-230 (322-323): the trailer is written, the file is closed and the
\* completion is logged; backup_database goes on to the next entry
Finalize ==
  /\ pc = "Finalizing"
  /\ \/ \E n \in 0..(Len(Trailer(kind)) - 1) :
          /\ file' = [file EXCEPT !.content = @ \o SubSeq(Trailer(kind), 1, n)]
          /\ Raise("Finalizing")
     \/ /\ file' = [file EXCEPT !.content = @ \o Trailer(kind)]
        /\ fileOpen' = FALSE
        /\ log' = log \o <<"Completed", "====">>
        /\ pc' = "Done"
        /\ idx' = idx + 1
        /\ UNCHANGED <<failedIn, conn>>
  /\ UNCHANGED <<config, db, touched, stage, invoked, kind, job, column_names, column_types,
                 offset, batch_number, recordsnum, rows, loweroffset, upperinsert,
                 queries, pageSizes, pageMark, opens, fmtVars>>

(***************************************************************************)
(* backup_database                                                         *)
(***************************************************************************)
\* the exporter is called for entry i of kind k: lines 128-131 (240-247)
Call(k, i) ==
  /\ pc' = "Introspecting"
  /\ log' = <<"====", "Starting backup">>
  /\ invoked' = Append(invoked, <<k, i>>)
  /\ idx' = idx

\* the entry is skipped: lines 334-336 (358-360)
Skip ==
  /\ pc' = "Idle"
  /\ log' = <<"WARNING Skipping">>
  /\ invoked' = invoked
  /\ idx' = idx + 1

\* the variables of an iteration before its exporter call has done anything
FreshIteration(k, i) ==
  /\ kind' = k
  /\ job' = i
  /\ failedIn' = ""
  /\ column_names' = <<>>
  /\ column_types' = <<>>
  /\ file' = NoFile
  /\ fileOpen' = FALSE
  /\ conn' = 0
  /\ offset' = 0
  /\ batch_number' = 0
  /\ recordsnum' = 0
  /\ rows' = <<>>
  /\ loweroffset' = 0
  /\ upperinsert' = 0
  /\ queries' = <<>>
  /\ pageSizes' = <<>>
  /\ pageMark' = 0
  /\ opens' = 0

\* a table loop without the test of the name
TableIterUnchecked ==
  /\ stage = "tables"
  /\ NoCall
  /\ idx <= Len(config.tables)
  /\ FreshIteration("table", idx)
  /\ Call("table", idx)
  /\ UNCHANGED <<config, db, touched, stage, fmtVars>>

\* lines 327-345: one iteration of the loop over config['tables']
TableIter ==
  /\ stage = "tables"
  /\ NoCall
  /\ idx <= Len(config.tables)
  /\ FreshIteration("table", idx)
  /\ IF config.tables[idx].name = "" THEN Skip ELSE Call("table", idx)
  /\ UNCHANGED <<config, db, touched, stage, fmtVars>>

\* line 327 -> line 349: the loop over the tables ends
TablesEnd ==
  /\ stage = "tables"
  /\ NoCall
  /\ idx > Len(config.tables)
  /\ stage' = "queries"
  /\ idx' = 1
  /\ UNCHANGED <<config, db, touched, invoked, jobVars, fmtVars>>

\* lines 349-370: one iteration of the loop over config['custom_queries']
QueryIter ==
  /\ stage = "queries"
  /\ NoCall
  /\ idx <= Len(config.custom_queries)
  /\ FreshIteration("query", idx)
  /\ IF config.custom_queries[idx].query = "" THEN Skip ELSE Call("query", idx)
  /\ UNCHANGED <<config, db, touched, stage, fmtVars>>

\* line 349: the loop over the custom queries ends and backup_database returns
QueriesEnd ==
  /\ stage = "queries"
  /\ NoCall
  /\ idx > Len(config.custom_queries)
  /\ stage' = "exit"
  /\ UNCHANGED <<config, db, touched, idx, invoked, jobVars, fmtVars>>

(***************************************************************************)
(* Initial states: the configurations and databases of the model.          *)
(***************************************************************************)
MaxRows == 23

MaxCap == 3

MaxTables == 2

MaxQueries == 1

DriverRows == 2

\* the sequences over S of length 0..n
SeqsUpTo(S, n) == UNION {[1..k -> S] : k \in 0..n}

\* an entry of the configuration together with the relation it reads
Job(name, batch_size, max_batches, exists, nrows) ==
  [name |-> name, batch_size |-> batch_size, max_batches |-> max_batches,
   exists |-> exists, nrows |-> nrows]

\* every table size up to MaxRows with batch sizes below, at and above the
\* bulk size, without a cap and with every cap 0..MaxCap; a relation that does
\* not exist; and the query whose result has two columns of the same name
PagingJobs ==
  {Job("orders", b, m, TRUE, n) :
     b \in {1, 2, BulkSize - 3, BulkSize, MaxRows},
     m \in {None} \cup 0..MaxCap,
     n \in 0..MaxRows}
  \cup {Job("ghost", 1, None, FALSE, 0)}
  \cup {Job("join", BulkSize, None, TRUE, n) : n \in 0..DriverRows}

\* the entries of the configurations with several entries: one without a
\* name, one that reads an existing relation, one capped, one whose relation
\* does not exist
DriverJobs ==
  { Job("", 1, None, TRUE, 0),
    Job("orders", 1, None, TRUE, DriverRows),
    Job("orders", 1, 1, TRUE, DriverRows),
    Job("ghost", 1, None, FALSE, 0) }

TableEntry(j) == [name |-> j.name, batch_size |-> j.batch_size,
                  max_batches |-> j.max_batches]

QueryEntry(j) == [query |-> j.name, batch_size |-> j.batch_size,
                  max_batches |-> j.max_batches]

RelationOf(j) == [exists |-> j.exists, rows |-> RowsOf(j.nrows)]

\* the state before backup_database starts, for tables ts and queries qs
InitJobs(ts, qs) ==
  /\ config = [tables         |-> [i \in 1..Len(ts) |-> TableEntry(ts[i])],
               custom_queries |-> [i \in 1..Len(qs) |-> QueryEntry(qs[i])]]
  /\ db = [tables         |-> [i \in 1..Len(ts) |-> RelationOf(ts[i])],
           custom_queries |-> [i \in 1..Len(qs) |-> RelationOf(qs[i])]]
  /\ touched = {}
  /\ stage = "tables"
  /\ idx = 1
  /\ invoked = <<>>
  /\ pc = "Idle"
  /\ failedIn = ""
  /\ kind = "table"
  /\ job = 0
  /\ column_names = <<>>
  /\ column_types = <<>>
  /\ file = NoFile
  /\ fileOpen = FALSE
  /\ conn = 0
  /\ offset = 0
  /\ batch_number = 0
  /\ recordsnum = 0
  /\ rows = <<>>
  /\ loweroffset = 0
  /\ upperinsert = 0
  /\ queries = <<>>
  /\ pageSizes = <<>>
  /\ pageMark = 0
  /\ opens = 0
  /\ log = <<>>

\* no call of _format_value is under observation
InitWith(ts, qs) ==
  /\ InitJobs(ts, qs)
  /\ fmtValue = NullV
  /\ fmtType = NoType
  /\ fmtDone = FALSE
  /\ fmtToken = ""

\* configurations with several entries
InitDriver ==
  \E ts \in SeqsUpTo(DriverJobs, MaxTables), qs \in SeqsUpTo(DriverJobs, MaxQueries) :
    InitWith(ts, qs)

\* configurations with one entry, a table or a custom query
InitPaging ==
  \E j \in PagingJobs : InitWith(<<j>>, <<>>) \/ InitWith(<<>>, <<j>>)

Init == InitDriver \/ InitPaging

Next ==
  \/ TableIter
  \/ TablesEnd
  \/ QueryIter
  \/ QueriesEnd
  \/ Introspect
  \/ Probe
  \/ OpenAndFrame
  \/ CapReached
  \/ Fetch
  \/ BulkWrite
  \/ EndPage
  \/ Finalize

Spec == Init /\ [][Next]_vars

\* The program is one sequential thread: it takes its next step as long as
\* it has one.
FairSpec == InitDriver /\ [][Next]_vars /\ WF_vars(Next)

(***************************************************************************)
(* A table that other processes change during its export.  Nothing in      *)
(* backup_table locks the table or holds a snapshot: every page is fetched *)
(* on a connection of its own (line 175), so between two paginated         *)
(* statements other transactions may commit inserts and deletes.           *)
(***************************************************************************)
MutRows == 3

MaxMutations == 2

\* s without its p-th element
RemoveAt(s, p) == SubSeq(s, 1, p - 1) \o SubSeq(s, p + 1, Len(s))

\* s with x as its p-th element
InsertAt(s, p, x) == SubSeq(s, 1, p - 1) \o <<x>> \o SubSeq(s, p, Len(s))

\* the id of the next row that another process inserts
NewId == MutRows + 1 + Cardinality(touched)

\* between two paginated statements of a table export (lines 168-177),
\* another process deletes a row or inserts one; ORDER BY ctid puts the new
\* row wherever the table has free space
Mutate ==
  /\ pc = "Paginating" /\ kind = "table" /\ Relation.exists
  /\ pageSizes # <<>>
  /\ Cardinality(touched) < MaxMutations
  /\ \/ \E p \in 1..Len(Relation.rows) :
          /\ db' = [db EXCEPT !.tables[job].rows = RemoveAt(@, p)]
          /\ touched' = touched \cup {Relation.rows[p][1].n}
     \/ \E p \in 1..(Len(Relation.rows) + 1) :
          /\ db' = [db EXCEPT !.tables[job].rows = InsertAt(@, p, Row(NewId))]
          /\ touched' = touched \cup {NewId}
  /\ UNCHANGED <<config, stage, idx, invoked, jobVars, fmtVars>>

\* one table of up to MutRows rows read one or two rows at a time, alone or
\* followed by a capped query
InitMut ==
  \E b \in {1, 2}, n \in 0..MutRows :
    \/ InitWith(<<Job("orders", b, None, TRUE, n)>>, <<>>)
    \/ InitWith(<<Job("orders", b, None, TRUE, n)>>, <<Job("orders", 1, 1, TRUE, 2)>>)

NextMut == Next \/ Mutate

MutSpec == InitMut /\ [][NextMut]_vars

(***************************************************************************)
(* _format_value on its own: one call on each value and declared type of   *)
(* the sets below.                                                         *)
(***************************************************************************)
FmtValues ==
  { NullV, BoolV(TRUE), BoolV(FALSE), IntV(0), IntV(7), IntV(-12),
    StrV(""), StrV("abc"), StrV("O'Brien"), StrV("''"), StrV("It's a 'test'"),
    StrV("3.1"), StrV("a,b"),
    DecV(FALSE, "31", -1), DecV(FALSE, "2675", -3), DecV(FALSE, "1005", -3),
    DecV(FALSE, "125", -3), DecV(FALSE, "100", 0), DecV(TRUE, "1", -3),
    DecV(FALSE, "0", -2), DecV(TRUE, "750", -2), DecV(FALSE, "99995", -3),
    DecV(FALSE, "1234567890123456789", -2), DecV(FALSE, "9007199254740993", 0),
    DecV(FALSE, "30000000000000004", -17),
    OtherV("2024-01-31"), OtherV("['a', 'b']") }

FmtTypes ==
  { NoType, "integer", "text", "boolean", "character varying", "numeric", "1700",
    "numeric(5,2)", "NUMERIC(5,2)", "numeric(20,2)", "numeric(16,0)", "numeric(20,17)",
    "numeric(5, 2)", "numeric(10)" }

InitFmt ==
  /\ InitJobs(<<>>, <<>>)
  /\ fmtValue \in FmtValues
  /\ fmtType \in FmtTypes
  /\ fmtDone = FALSE
  /\ fmtToken = ""

\* lines 79-119: formatted = self._format_value(value, data_type)
FormatCall ==
  /\ ~fmtDone
  /\ fmtToken' = FormatValue(fmtValue, fmtType)
  /\ fmtDone' = TRUE
  /\ UNCHANGED <<driverVars, jobVars, fmtValue, fmtType>>

NextFmt == FormatCall

FormatSpec == InitFmt /\ [][NextFmt]_vars

(***************************************************************************)
(* Properties of the pagination loop.                                      *)
(***************************************************************************)
CeilDiv(a, b) == (a + b - 1) \div b

Range(s) == {s[i] : i \in DOMAIN s}

\* the paginated statements the current call has sent
PageFetches == SelectSeq(queries, LAMBDA q : q.q = "page")

\* the sizes of the non-empty batches the current call has been given
NonEmptyBatches == SelectSeq(pageSizes, LAMBDA n : n > 0)

\* the size the i-th of the batches of R rows read B at a time must have
BatchSize(R, B, i) ==
  IF i < CeilDiv(R, B) THEN B ELSE IF R % B = 0 THEN B ELSE R % B

\* C1: a table export without max_batches over a table of R rows that does
\* not change yields, in this order, batches of B rows and a last batch of
\* R mod B rows (B when B divides R), never more than ceil(R/B) of them and
\* exactly ceil(R/B) once the loop has stopped; the loop stops: it sends at
\* most ceil(R/B) + 1 paginated statements, and after that many it is over.
C1_PaginationYieldsCeilBatches ==
  (pc # "Idle" /\ kind = "table" /\ Relation.exists /\ Entry.max_batches = None) =>
    /\ Len(NonEmptyBatches) <= CeilDiv(Len(Relation.rows), Entry.batch_size)
    /\ \A i \in 1..Len(NonEmptyBatches) :
         NonEmptyBatches[i] = BatchSize(Len(Relation.rows), Entry.batch_size, i)
    /\ Len(PageFetches) <= CeilDiv(Len(Relation.rows), Entry.batch_size) + 1
    /\ Len(PageFetches) = CeilDiv(Len(Relation.rows), Entry.batch_size) + 1
         => pc \in {"Finalizing", "Done", "Failed"}
    /\ pc \in {"Finalizing", "Done"}
         => Len(NonEmptyBatches) = CeilDiv(Len(Relation.rows), Entry.batch_size)

\* a table export without a cap has ended after several full batches and a
\* shorter last one
C1_Witness ==
  /\ pc = "Done" /\ kind = "table" /\ Entry.max_batches = None
  /\ Len(Relation.rows) % Entry.batch_size # 0
  /\ Len(NonEmptyBatches) >= 3
  /\ NonEmptyBatches[Len(NonEmptyBatches)] < Entry.batch_size

\* the concatenation of a sequence of sequences
RECURSIVE Flatten(_)
Flatten(ss) ==
  IF Len(ss) = 0 THEN <<>>
  ELSE IF Len(ss) = 1 THEN ss[1]
  ELSE Flatten(SubSeq(ss, 1, Len(ss) \div 2))
         \o Flatten(SubSeq(ss, Len(ss) \div 2 + 1, Len(ss)))

\* the tuples of the INSERT statements of a sequence of statements, in order
TuplesOf(stmts) ==
  Flatten([i \in 1..Len(stmts) |->
             IF stmts[i].k = "INSERT" THEN stmts[i].values ELSE <<>>])

\* the tuples that a sequence of rows must be written as
FormatRows(rs) == [i \in 1..Len(rs) |-> FormatRow(column_names, column_types, rs[i])]

\* C2: an export, of a table or of a query, with 1 <= max_batches = M <
\* ceil(R/B) never sends more than M paginated statements, and when its loop
\* is over it has sent exactly M, has written the rows of the first M pages
\* and no other, and has logged that the cap was reached.
C2_CapStopsAfterMFetches ==
  (/\ pc # "Idle" /\ Relation.exists
   /\ Entry.max_batches >= 1
   /\ Entry.max_batches < CeilDiv(Len(Relation.rows), Entry.batch_size)) =>
    /\ Len(PageFetches) <= Entry.max_batches
    /\ pc \in {"Finalizing", "Done"} =>
         /\ Len(PageFetches) = Entry.max_batches
         /\ TuplesOf(file.content) =
              FormatRows(SubSeq(Relation.rows, 1, Entry.max_batches * Entry.batch_size))
         /\ "Reached maximum number of batches" \in Range(log)

\* a query export capped at two batches has ended with rows left unread
C2_Witness ==
  /\ pc = "Done" /\ kind = "query" /\ Entry.max_batches = 2
  /\ Len(Relation.rows) > 2 * Entry.batch_size
  /\ Len(PageFetches) = 2
  /\ Len(TuplesOf(file.content)) = 2 * Entry.batch_size

\* C3: whenever max_batches is given, whatever its value from 0 on, the
\* export never sends more paginated statements than max_batches.
C3_FetchesNeverExceedCap ==
  (pc # "Idle" /\ Entry.max_batches # None) => Len(PageFetches) <= Entry.max_batches

\* the statements written since the last page was fetched
PageStatements == SubSeq(file.content, pageMark + 1, Len(file.content))

\* C4: the statements written for a page of n >= 1 rows are INSERTs, at most
\* ceil(n/10) of them and exactly that many when the bulk loop is over; every
\* one but the last of the ceil(n/10) carries 10 rows, the last carries
\* n - 10 * (ceil(n/10) - 1); their tuples, in the order written, are the
\* rows of the page in the page's order.
C4_BulkGroupsOfTen ==
  (pc \in {"Bulk", "Paginating"} /\ rows # <<>>) =>
    /\ Len(PageStatements) <= CeilDiv(Len(rows), 10)
    /\ \A j \in 1..Len(PageStatements) :
         /\ PageStatements[j].k = "INSERT"
         /\ Len(PageStatements[j].values) =
              IF j < CeilDiv(Len(rows), 10) THEN 10
              ELSE Len(rows) - 10 * (CeilDiv(Len(rows), 10) - 1)
    /\ TuplesOf(PageStatements) =
         FormatRows(SubSeq(rows, 1, Len(TuplesOf(PageStatements))))
    /\ (pc = "Paginating" \/ CurrentBatch = <<>>) =>
         /\ Len(PageStatements) = CeilDiv(Len(rows), 10)
         /\ TuplesOf(PageStatements) = FormatRows(rows)

\* a page of 23 rows has been written as groups of 10, 10 and 3
C4_Witness ==
  /\ pc = "Paginating" /\ Len(rows) = 23
  /\ Len(PageStatements) = 3
  /\ Len(PageStatements[1].values) = 10
  /\ Len(PageStatements[2].values) = 10
  /\ Len(PageStatements[3].values) = 3

\* C5: the file of a table export that is Done holds the header comment, SET
\* session_replication_role = 'replica', DISABLE TRIGGER ALL, TRUNCATE TABLE,
\* then only INSERTs, then ENABLE TRIGGER ALL and SET session_replication_role
\* = 'origin'; and at no moment of a table export has an INSERT been written
\* before TRUNCATE TABLE or after ENABLE TRIGGER ALL.
C5_TableFileOrder ==
  (pc # "Idle" /\ kind = "table") =>
    /\ \A i \in 1..Len(file.content) :
         file.content[i].k = "INSERT" =>
           /\ i > 4
           /\ file.content[4].k = "TRUNCATE TABLE"
           /\ \A j \in 1..(i - 1) : file.content[j].k # "ENABLE TRIGGER ALL"
    /\ pc = "Done" =>
         /\ Len(file.content) >= 6
         /\ [i \in 1..4 |-> file.content[i].k] =
              <<"-- Backup of", "SET session_replication_role = 'replica'",
                "DISABLE TRIGGER ALL", "TRUNCATE TABLE">>
         /\ \A i \in 5..(Len(file.content) - 2) : file.content[i].k = "INSERT"
         /\ file.content[Len(file.content) - 1].k = "ENABLE TRIGGER ALL"
         /\ file.content[Len(file.content)].k = "SET session_replication_role = 'origin'"

\* a table export stopped by the cap is Done with INSERTs between the frames
C5_Witness ==
  /\ pc = "Done" /\ kind = "table"
  /\ "Reached maximum number of batches" \in Range(log)
  /\ Len(file.content) >= 8
  /\ file.content[5].k = "INSERT"

(***************************************************************************)
(* Properties of backup_database.                                          *)
(***************************************************************************)
\* the entries that have their required field, tables first, in the order of
\* the configuration
ValidEntries ==
  SelectSeq([i \in 1..Len(config.tables) |-> <<"table", i>>],
            LAMBDA e : config.tables[e[2]].name # "")
  \o SelectSeq([i \in 1..Len(config.custom_queries) |-> <<"query", i>>],
               LAMBDA e : config.custom_queries[e[2]].query # "")

IsPrefix(s, t) == Len(s) <= Len(t) /\ SubSeq(t, 1, Len(s)) = s

\* C6: whichever exports fail, the exporters are invoked in the order of the
\* entries that have their required field, tables before queries, no entry
\* twice; backup_database returns, and by then every such entry has been
\* invoked.
C6_DriverRunsEveryEntry ==
  /\ [](IsPrefix(invoked, ValidEntries) /\ (stage = "exit" => invoked = ValidEntries))
  /\ <>(stage = "exit")

\* backup_database has returned after the export of its first table, which
\* does not exist, failed, and the two entries after it were invoked
C6_Witness ==
  /\ stage = "exit"
  /\ Len(config.tables) = 2 /\ Len(config.custom_queries) = 1
  /\ config.tables[1].name # "" /\ ~db.tables[1].exists
  /\ invoked = <<<<"table", 1>>, <<"table", 2>>, <<"query", 1>>>>

\* C7: the export of a table that does not exist goes from Introspecting to
\* Failed: it never opens a file and fails nowhere but in Introspecting.
C7_MissingTableFailsIntrospecting ==
  (pc # "Idle" /\ kind = "table" /\ ~Relation.exists) =>
    /\ pc \in {"Introspecting", "Failed"}
    /\ ~file.exists
    /\ pc = "Failed" => failedIn = "Introspecting"

(***************************************************************************)
(* Properties of _format_value.                                            *)
(***************************************************************************)
\* C8: a boolean whose declared type does not contain "numeric" is written
\* TRUE or FALSE.
C8_BooleanToken ==
  (fmtDone /\ IsBool(fmtValue) /\ ~IsNumericType(fmtType)) =>
    fmtToken = IF fmtValue.b THEN "TRUE" ELSE "FALSE"

\* the digits of |d| * 10^scale, rounded toward zero
ScaledDown(d, scale) ==
  StripZeros(DecParts(d).int \o SubSeq(DecParts(d).frac \o Zeros(scale), 1, scale))

\* the tokens with scale digits after the point that denote d rounded to
\* that scale, whichever way a value between two of them is rounded
RoundedTokens(d, scale) ==
  {RenderFixed(d.b, ScaledDown(d, scale), scale)}
  \cup IF AllZero(SubSeq(DecParts(d).frac, scale + 1, Len(DecParts(d).frac)))
       THEN {}
       ELSE {RenderFixed(d.b, Increment(ScaledDown(d, scale), 10), scale)}

\* C9: a decimal of a column declared numeric(precision,scale) is written
\* with scale digits after the point, as the decimal value rounded to that
\* scale.
C9_ExactScale ==
  (fmtDone /\ IsDecimal(fmtValue) /\ NumericMatch(fmtType).ok) =>
    fmtToken \in RoundedTokens(fmtValue, NumericMatch(fmtType).scale)

\* the number of single quotes among the first n characters of s
QuotesIn(s, n) == Cardinality({i \in 1..n : SubSeq(s, i, i) = "'"})

\* C10: the token of a text whose declared type does not contain "numeric"
\* starts and ends with a single quote, and between them holds the characters
\* of the text in order, each single quote of the text twice: a text with k
\* single quotes gives a token with 2k + 2.
C10_TextQuoting ==
  (fmtDone /\ IsStr(fmtValue) /\ ~IsNumericType(fmtType)) =>
    /\ Len(fmtToken) = Len(fmtValue.s) + QuotesIn(fmtValue.s, Len(fmtValue.s)) + 2
    /\ SubSeq(fmtToken, 1, 1) = "'"
    /\ SubSeq(fmtToken, Len(fmtToken), Len(fmtToken)) = "'"
    /\ \A i \in 1..Len(fmtValue.s) :
         /\ SubSeq(fmtToken, 1 + i + QuotesIn(fmtValue.s, i - 1),
                             1 + i + QuotesIn(fmtValue.s, i - 1))
              = SubSeq(fmtValue.s, i, i)
         /\ SubSeq(fmtValue.s, i, i) = "'" =>
              SubSeq(fmtToken, 2 + i + QuotesIn(fmtValue.s, i - 1),
                               2 + i + QuotesIn(fmtValue.s, i - 1)) = "'"
    /\ QuotesIn(fmtToken, Len(fmtToken)) = 2 * QuotesIn(fmtValue.s, Len(fmtValue.s)) + 2

\* O'Brien has been written 'O''Brien'
C10_Witness ==
  /\ fmtDone /\ fmtValue = StrV("O'Brien") /\ fmtType = "text"
  /\ fmtToken = "'O''Brien'"

(***************************************************************************)
(* Properties of the resources of an export.                               *)
(***************************************************************************)
\* C11: an export opens its output file at most once; the handle is open
\* only between the header and the end of the export, and it is closed when
\* the export is Done or Failed, wherever the exception was raised; so no
\* handle is open when backup_database is about to start another entry.
C11_FileHandleClosed ==
  /\ opens <= 1
  /\ fileOpen => (opens = 1 /\ pc \in {"Paginating", "Bulk", "Finalizing"})
  /\ pc \in {"Done", "Failed"} => ~fileOpen
  /\ NoCall => ~fileOpen

\* an export has failed while writing the INSERTs of a page after its file
\* was opened, and the handle is closed
C11_Witness ==
  /\ pc = "Failed" /\ failedIn = "Paginating"
  /\ opens = 1 /\ file.exists /\ ~fileOpen
  /\ Len(PageFetches) = Len(pageSizes) /\ rows # <<>>
  /\ Len(file.content) > Len(Header(kind))

\* C12: at most one database connection is held at any time, and none is
\* held while the rows of a page are formatted and written as INSERTs.
C12_NoConnectionWhileWriting ==
  /\ conn <= 1
  /\ pc = "Bulk" => conn = 0

(***************************************************************************)
(* Properties of failed and skipped entries.                               *)
(***************************************************************************)
\* C13: when the k-th paginated statement of a table export fails, the export
\* is Failed and its file stays: it holds the four header statements and then
\* only INSERTs, whose tuples are the rows of the pages 1..k-1, and no trailer
\* statement; the failed statement is the last one of the export, the error is
\* logged and backup_database has moved on to the entry after it.
C13_FetchFailureKeepsPartialFile ==
  (/\ pc = "Failed" /\ kind = "table" /\ failedIn = "Paginating"
   /\ Len(PageFetches) = Len(pageSizes) + 1) =>
    /\ file.exists /\ ~fileOpen
    /\ Len(file.content) >= 4
    /\ [i \in 1..4 |-> file.content[i].k] =
         <<"-- Backup of", "SET session_replication_role = 'replica'",
           "DISABLE TRIGGER ALL", "TRUNCATE TABLE">>
    /\ \A i \in 5..Len(file.content) : file.content[i].k = "INSERT"
    /\ TuplesOf(file.content) =
         FormatRows(SubSeq(Relation.rows, 1,
                           Min(Len(Relation.rows), Len(pageSizes) * Entry.batch_size)))
    /\ queries[Len(queries)].q = "page"
    /\ log[Len(log)] = "ERROR"
    /\ stage = "tables" => idx = job + 1

\* the third paginated statement of a table export has failed after two
\* pages of two rows or more were written
C13_Witness ==
  /\ pc = "Failed" /\ kind = "table" /\ failedIn = "Paginating"
  /\ Len(PageFetches) = 3 /\ Len(pageSizes) = 2
  /\ Entry.batch_size >= 2
  /\ Len(TuplesOf(file.content)) = 2 * Entry.batch_size
  /\ file.exists

\* the required field of entry i of kind k: the name of a table, the text of
\* a query
RequiredField(k, i) ==
  IF k = "table" THEN config.tables[i].name ELSE config.custom_queries[i].query

\* C14: no exporter is ever invoked for an entry whose name (query text) is
\* missing or empty; the iteration of such an entry sends no statement to the
\* database, holds no connection, opens no file, logs one warning, and the
\* loop moves on to the entry after it.
C14_EntriesWithoutNameSkipped ==
  /\ \A i \in 1..Len(invoked) : RequiredField(invoked[i][1], invoked[i][2]) # ""
  /\ (job >= 1 /\ RequiredField(kind, job) = "") =>
       /\ pc = "Idle"
       /\ queries = <<>> /\ conn = 0
       /\ opens = 0 /\ ~file.exists /\ ~fileOpen
       /\ log = <<"WARNING Skipping">>
       /\ stage = (IF kind = "table" THEN "tables" ELSE "queries") => idx = job + 1

\* the second table entry has no name and was skipped after the exporter
\* was invoked for the first
C14_Witness ==
  /\ job = 2 /\ kind = "table" /\ config.tables[2].name = ""
  /\ pc = "Idle" /\ log = <<"WARNING Skipping">>
  /\ invoked = <<<<"table", 1>>>>
  /\ idx = 3

(***************************************************************************)
(* More properties of _format_value.                                       *)
(***************************************************************************)
\* C15: whatever the declared type, absent, numeric, numeric(p,s) or any
\* other, the token of a null value is NULL.
C15_NullToken ==
  (fmtDone /\ fmtValue = NullV) => fmtToken = "NULL"

\* the null of a numeric(5,2) column has been written NULL
C15_Witness ==
  /\ fmtDone /\ fmtValue = NullV /\ fmtType = "numeric(5,2)"
  /\ fmtToken = "NULL"

(***************************************************************************)
(* More properties of the pagination loop.                                 *)
(***************************************************************************)
\* the sum of a sequence of numbers
RECURSIVE SumSeq(_)
SumSeq(ns) ==
  IF Len(ns) = 0 THEN 0
  ELSE IF Len(ns) = 1 THEN ns[1]
  ELSE SumSeq(SubSeq(ns, 1, Len(ns) \div 2))
         + SumSeq(SubSeq(ns, Len(ns) \div 2 + 1, Len(ns)))

\* C16: the i-th paginated statement of an export (i = 0, 1, 2, ...) has
\* LIMIT batch_size and OFFSET i * batch_size, so the offsets strictly
\* increase; whenever the loop is about to fetch, offset = (batch_number - 1)
\* * batch_size; and all the rows of the pages before the last one fetched
\* have been written, so a page is fetched only after the one before it was
\* written in full.
C16_SequentialOffsets ==
  (pc # "Idle") =>
    /\ \A i \in 1..Len(PageFetches) :
         /\ PageFetches[i].limit = Entry.batch_size
         /\ PageFetches[i].offset = (i - 1) * Entry.batch_size
    /\ \A i \in 1..(Len(PageFetches) - 1) :
         PageFetches[i].offset < PageFetches[i + 1].offset
    /\ pc = "Paginating" =>
         /\ offset = (batch_number - 1) * Entry.batch_size
         /\ Len(PageFetches) = batch_number - 1
         /\ Len(TuplesOf(file.content)) = SumSeq(pageSizes)
    /\ Len(TuplesOf(file.content)) >=
         SumSeq(SubSeq(pageSizes, 1, Len(pageSizes) - 1))

\* three pages of seven rows have been fetched at offsets 0, 7 and 14, and
\* the loop is about to fetch at offset 21
C16_Witness ==
  /\ pc = "Paginating" /\ Entry.batch_size = 7
  /\ Len(PageFetches) = 3
  /\ PageFetches[1].offset = 0 /\ PageFetches[2].offset = 7
  /\ PageFetches[3].offset = 14
  /\ offset = 21 /\ batch_number = 4

\* the columns the current export reads, with their declared types: the
\* data_type of a table's column, the type code of a query's column
DeclaredColumns ==
  IF kind = "table"
  THEN [i \in 1..Len(Columns) |->
          [name |-> Columns[i].name, type |-> Columns[i].data_type]]
  ELSE [i \in 1..Len(Columns) |->
          [name |-> QueryColumns(Entry.query)[i].name,
           type |-> QueryColumns(Entry.query)[i].type_code]]

\* C17: every tuple written has one token per column, and its i-th token is
\* the formatting of the i-th value of its row with the declared type of the
\* i-th column, whatever the column list is.
C17_TokenPerColumn ==
  (pc # "Idle" /\ Relation.exists) =>
    \A j \in 1..Len(TuplesOf(file.content)) :
      /\ Len(TuplesOf(file.content)[j]) = Len(DeclaredColumns)
      /\ \A i \in 1..Len(DeclaredColumns) :
           TuplesOf(file.content)[j][i] =
             FormatValue(Relation.rows[j][i], DeclaredColumns[i].type)

(***************************************************************************)
(* Properties of the export of a table that changes.                       *)
(***************************************************************************)
\* the number of times the tuple of row r has been written
TimesWritten(r) ==
  Cardinality({j \in 1..Len(TuplesOf(file.content)) :
                 TuplesOf(file.content)[j] = FormatRow(column_names, column_types, r)})

\* C18: when no other process has inserted or deleted a row, a table export
\* without a cap that is Done has written every row of the table exactly
\* once and nothing else.  (That a changed table can lose a row and repeat
\* another is the reachable state C18_Witness.)
C18_UnchangedTableWrittenOnce ==
  (pc = "Done" /\ kind = "table" /\ touched = {} /\ ~Truthy(Entry.max_batches)) =>
    /\ \A i \in 1..Len(Relation.rows) : TimesWritten(Relation.rows[i]) = 1
    /\ Len(TuplesOf(file.content)) = Len(Relation.rows)

\* an export is Done after other processes changed the table between its
\* fetches: a row that was never touched, in the table from the start to the
\* end, is in no INSERT, and a row is in the file twice
C18_Witness ==
  /\ pc = "Done" /\ kind = "table" /\ touched # {}
  /\ \E i \in 1..Len(Relation.rows) :
       /\ Relation.rows[i][1].n \notin touched
       /\ TimesWritten(Relation.rows[i]) = 0
  /\ \E i \in 1..Len(Relation.rows) : TimesWritten(Relation.rows[i]) = 2

(***************************************************************************)
(* Properties of the files written.                                        *)
(***************************************************************************)
\* C19: the file of a query export holds the comment with the output table,
\* the comment with the query text, and after them only INSERTs: never a SET
\* session_replication_role, a DISABLE or ENABLE TRIGGER ALL or a TRUNCATE
\* TABLE; and an export whose probe fails, as it does when the query cannot
\* be executed, is Failed without having opened a file.
C19_QueryFileUnframed ==
  (pc # "Idle" /\ kind = "query") =>
    /\ \A i \in 1..Len(file.content) :
         file.content[i].k =
           IF i = 1 THEN "-- Custom Query Backup for"
           ELSE IF i = 2 THEN "-- Original Query"
           ELSE "INSERT"
    /\ pc = "Done" => Len(file.content) >= 2
    /\ pc = "Introspecting" => ~file.exists
    /\ (pc = "Failed" /\ failedIn = "Introspecting") => (~file.exists /\ opens = 0)
    /\ ~Relation.exists =>
         /\ pc \in {"Introspecting", "Failed"}
         /\ pc = "Failed" => failedIn = "Introspecting"

\* a query export is Done with its two comments and INSERTs of 23 rows
C19_Witness ==
  /\ pc = "Done" /\ kind = "query"
  /\ Len(file.content) >= 4
  /\ file.content[3].k = "INSERT"
  /\ Len(TuplesOf(file.content)) = 23

\* the numbers of rows of the INSERTs that a page of n rows is written as
GroupSizes(n) ==
  [j \in 1..CeilDiv(n, 10) |->
     IF j < CeilDiv(n, 10) THEN 10 ELSE n - 10 * (CeilDiv(n, 10) - 1)]

\* the numbers of rows of the INSERTs of the file, in order
InsertSizes ==
  LET ins == SelectSeq(file.content, LAMBDA st : st.k = "INSERT")
  IN [j \in 1..Len(ins) |-> Len(ins[j].values)]

\* C20: between two pages and when the loop is over, the INSERTs of the file
\* are, page after page, the groups of that page alone: ceil(n1/10) + ... +
\* ceil(nk/10) statements for pages of n1..nk rows, none with rows of two
\* pages; and recordsnum, the count reported at completion, is n1 + ... + nk,
\* the number of tuples written.
C20_NoInsertSpansPages ==
  (pc \in {"Paginating", "Finalizing", "Done"}) =>
    /\ InsertSizes = Flatten([i \in 1..Len(pageSizes) |-> GroupSizes(pageSizes[i])])
    /\ Len(InsertSizes) =
         SumSeq([i \in 1..Len(pageSizes) |-> CeilDiv(pageSizes[i], 10)])
    /\ recordsnum = SumSeq(pageSizes)
    /\ recordsnum = Len(TuplesOf(file.content))

\* 12 rows read 10 at a time are Done as one INSERT of 10 rows and one of 2,
\* and 12 rows are reported
C20_Witness ==
  /\ pc = "Done" /\ kind = "table" /\ Entry.batch_size = 10
  /\ pageSizes = <<10, 2, 0>>
  /\ InsertSizes = <<10, 2>>
  /\ recordsnum = 12

====
